---- MODULE Spec2Model ----
(***************************************************************************)
(* State-machine model of scripts/analyze_profile.py: the run of main()    *)
(* from "Building address map..." on: build_address_map, find_main_thread  *)
(* and analyze_samples, over parsed symbol and profile documents.          *)
(*                                                                         *)
(* A Python dict is a TLA+ function whose DOMAIN is the set of keys; a     *)
(* JSON object with an optional key is a record that has the field or      *)
(* not; a value that may be None is None (<<>>) or Some(v) (<<v>>).        *)
(***************************************************************************)
EXTENDS Integers, Sequences, FiniteSets, TLC

VARIABLES
    symbols,        \* parsed symbols document: [data, string_table]
    profile,        \* parsed profile document: [threads]
    pc,             \* position of the run
    demo_lib,       \* build_address_map: None or Some(index into symbols.data)
    sym_i,          \* build_address_map: index of the next sym_entry
    addr_to_sym,    \* dict address -> symbol name
    main_thread,    \* main: None or Some(index into profile.threads)
    sample_i,       \* analyze_samples: index of the next stack_idx
    current,        \* analyze_samples: current stack id (None or Some(int))
    visited,        \* analyze_samples: set of stack ids seen in this walk
    depth,          \* analyze_samples: iterations of range(50) used up
    func_samples,   \* dict function name -> count
    total_samples,  \* main: None or Some(len(stack_indices))
    stdout          \* the lines printed by build_address_map and main

vars == <<symbols, profile, pc, demo_lib, sym_i, addr_to_sym, main_thread,
          sample_i, current, visited, depth, func_samples, total_samples,
          stdout>>

-----------------------------------------------------------------------------
(* Python values *)

None == <<>>
Some(v) == <<v>>
Val(o) == o[1]

EmptyDict == <<>>

\* d[k] = v
DictSet(d, k, v) == [x \in DOMAIN d \cup {k} |-> IF x = k THEN v ELSE d[x]]

\* d.get(k, default)
DictGet(d, k, default) == IF k \in DOMAIN d THEN d[k] ELSE default

\* obj.get(key, default) on a JSON object
Get(obj, key, default) == IF key \in DOMAIN obj THEN obj[key] ELSE default

\* needle in haystack, on strings
Contains(haystack, needle) ==
    \E i \in 1..(Len(haystack) - Len(needle) + 1) :
        SubSeq(haystack, i, i + Len(needle) - 1) = needle

HexDigits == <<"0", "1", "2", "3", "4", "5", "6", "7",
               "8", "9", "a", "b", "c", "d", "e", "f">>

DecDigits == <<"0", "1", "2", "3", "4", "5", "6", "7", "8", "9">>

\* the digits of n >= 0 in base Len(digits)
RECURSIVE Format(_, _)
Format(n, digits) ==
    IF n < Len(digits)
    THEN digits[n + 1]
    ELSE Format(n \div Len(digits), digits) \o digits[(n % Len(digits)) + 1]

\* format(n, 'x') for n >= 0
Hex(n) == Format(n, HexDigits)

\* str(n) for n >= 0
Str(n) == Format(n, DecDigits)

\* list[i], i >= 0
At(list, i) == list[i + 1]

\* variant of FallbackLabel: the address in decimal, f'0x{addr}'
FallbackDecimal(addr) == "0x" \o Str(addr)

\* f'0x{addr:x}'
FallbackLabel(addr) == "0x" \o Hex(addr)

TargetName == "demo-interactive"

-----------------------------------------------------------------------------
(* build_address_map *)

\* 'demo-interactive' in lib.get('debug_name', '')
IsDemoLib(lib) == Contains(Get(lib, "debug_name", ""), TargetName)

\* variant of ScanLibs: the loop without the break, the last matching lib
RECURSIVE ScanLibsNoBreak(_, _)
ScanLibsNoBreak(data, i) ==
    IF i > Len(data) THEN None
    ELSE IF ScanLibsNoBreak(data, i + 1) # None THEN ScanLibsNoBreak(data, i + 1)
    ELSE IF IsDemoLib(data[i]) THEN Some(i)
    ELSE None

\* the for/break loop of lines 49-52 from data[i] on: the first matching lib
RECURSIVE ScanLibs(_, _)
ScanLibs(data, i) ==
    IF i > Len(data) THEN None
    ELSE IF IsDemoLib(data[i]) THEN Some(i)
    ELSE ScanLibs(data, i + 1)

\* lines 48-52: demo_lib after the loop
FindDemoLib(data) == ScanLibs(data, 1)

\* variant of MapRange: the range is closed, range(size + 1)
MapRangeClosed(d, rva, size, symbol_name) ==
    [a \in DOMAIN d \cup {rva + offset : offset \in 0..size} |->
        IF a >= rva /\ a <= rva + size THEN symbol_name ELSE d[a]]

\* variant of MapRange: an address keeps the first name it got
MapRangeFirstWins(d, rva, size, symbol_name) ==
    [a \in DOMAIN d \cup {rva + offset : offset \in 0..(size - 1)} |->
        IF a \in DOMAIN d THEN d[a] ELSE symbol_name]

\* for offset in range(size): addr_to_sym[rva + offset] = symbol_name
MapRange(d, rva, size, symbol_name) ==
    [a \in DOMAIN d \cup {rva + offset : offset \in 0..(size - 1)} |->
        IF a >= rva /\ a < rva + size THEN symbol_name ELSE d[a]]

ErrNoLib == "ERROR: Could not find demo-interactive library in symbols"

\* lines 48-56, and line 58-59 up to the evaluation of demo_lib['symbol_table']
FindImage ==
    /\ pc = "build"
    /\ LET found == FindDemoLib(symbols.data) IN
        /\ demo_lib' = found
        /\ IF found = None
           THEN /\ stdout' = Append(stdout, ErrNoLib)
                /\ pc' = "exit1"
           ELSE IF "symbol_table" \in DOMAIN symbols.data[Val(found)]
           THEN /\ pc' = "symtab"
                /\ UNCHANGED stdout
           ELSE /\ pc' = "KeyError"
                /\ UNCHANGED stdout
    /\ UNCHANGED <<symbols, profile, sym_i, addr_to_sym, main_thread, sample_i,
                   current, visited, depth, func_samples, total_samples>>

\* one iteration of the loop of lines 59-67
MapSymbol ==
    /\ pc = "symtab"
    /\ LET table == symbols.data[Val(demo_lib)].symbol_table IN
        /\ sym_i < Len(table)
        /\ LET sym_entry == At(table, sym_i)
               symbol_name == At(symbols.string_table, sym_entry.symbol)
           IN addr_to_sym' =
                  MapRange(addr_to_sym, sym_entry.rva, sym_entry.size, symbol_name)
        /\ sym_i' = sym_i + 1
    /\ UNCHANGED <<symbols, profile, pc, demo_lib, main_thread, sample_i,
                   current, visited, depth, func_samples, total_samples, stdout>>

\* line 69, and main lines 220-222
BuildReturn ==
    /\ pc = "symtab"
    /\ sym_i >= Len(symbols.data[Val(demo_lib)].symbol_table)
    /\ stdout' = stdout \o
          << "  Loaded " \o Str(Cardinality(DOMAIN addr_to_sym)) \o " address mappings",
             "Finding main thread..." >>
    /\ pc' = "select"
    /\ UNCHANGED <<symbols, profile, demo_lib, sym_i, addr_to_sym, main_thread,
                   sample_i, current, visited, depth, func_samples, total_samples>>

-----------------------------------------------------------------------------
(* find_main_thread *)

MinSamples == 100

\* variant of IsMainCandidate: MinSamples samples are enough
IsMainCandidateAtLeast(thread) ==
    /\ \/ Contains(Get(thread, "processName", ""), TargetName)
       \/ Get(thread, "isMainThread", FALSE)
    /\ thread.samples.length >= MinSamples

\* the condition of lines 75-76
IsMainCandidate(thread) ==
    /\ \/ Contains(Get(thread, "processName", ""), TargetName)
       \/ Get(thread, "isMainThread", FALSE)
    /\ thread.samples.length > MinSamples

\* the loop of lines 74-77 from threads[i] on: the thread returned, or None
RECURSIVE ScanThreads(_, _)
ScanThreads(threads, i) ==
    IF i > Len(threads) THEN None
    ELSE IF IsMainCandidate(threads[i]) THEN Some(i)
    ELSE ScanThreads(threads, i + 1)

\* max(threads, key=...) from threads[i] on, best being the largest so far:
\* a later thread replaces it only when its key is strictly larger
RECURSIVE MaxFrom(_, _, _)
MaxFrom(threads, i, best) ==
    IF i > Len(threads) THEN best
    ELSE IF threads[i].samples.length > threads[best].samples.length
    THEN MaxFrom(threads, i + 1, i)
    ELSE MaxFrom(threads, i + 1, best)

\* line 80, for a non-empty list
MaxBySamples(threads) == MaxFrom(threads, 2, 1)

\* lines 74-80, for a non-empty list: the index of the thread returned
SelectThread(threads) ==
    IF ScanThreads(threads, 1) # None
    THEN Val(ScanThreads(threads, 1))
    ELSE MaxBySamples(threads)

\* main lines 223-226; max() of an empty list raises ValueError
FindMainThread ==
    /\ pc = "select"
    /\ IF Len(profile.threads) > 0
       THEN LET t == SelectThread(profile.threads) IN
            /\ main_thread' = Some(t)
            /\ stdout' = stdout \o
                  << "  Thread: " \o profile.threads[t].name \o ", Samples: "
                        \o Str(profile.threads[t].samples.length),
                     "\nAnalyzing samples..." >>
            /\ pc' = "samples"
       ELSE /\ pc' = "ValueError"
            /\ UNCHANGED <<main_thread, stdout>>
    /\ UNCHANGED <<symbols, profile, demo_lib, sym_i, addr_to_sym, sample_i,
                   current, visited, depth, func_samples, total_samples>>

-----------------------------------------------------------------------------
(* analyze_samples *)

MaxDepth == 50

Thread == profile.threads[Val(main_thread)]

stack_indices == Thread.samples.stack

\* variant of CapReached: one iteration more, range(MaxDepth + 1)
CapReachedLate(d) == d > MaxDepth

\* for depth in range(50): no iteration is left
CapReached(d) == d >= MaxDepth

\* x is None or x < 0
NoStack(x) == IF x = None THEN TRUE ELSE Val(x) < 0

\* variant of Increment: a first occurrence counts twice
IncrementFromOne(d, func_name) == DictSet(d, func_name, DictGet(d, func_name, 1) + 1)

\* func_samples[func_name] += 1 on a defaultdict(int)
Increment(d, func_name) == DictSet(d, func_name, DictGet(d, func_name, 0) + 1)

\* line 108: addr_to_sym.get(addr, f'0x{addr:x}')
Resolve(map, addr) == DictGet(map, addr, FallbackLabel(addr))

\* lines 104-108: the name a stack id is counted under
FuncName(thread, map, stack) ==
    LET frame_idx == At(thread.stackTable.frame, stack)
        addr == At(thread.frameTable.address, frame_idx)
    IN Resolve(map, addr)

\* lines 88-90: a sample without a stack
SkipSample ==
    /\ pc = "samples"
    /\ sample_i < Len(stack_indices)
    /\ NoStack(At(stack_indices, sample_i))
    /\ sample_i' = sample_i + 1
    /\ UNCHANGED <<symbols, profile, pc, demo_lib, sym_i, addr_to_sym, main_thread,
                   current, visited, depth, func_samples, total_samples, stdout>>

\* variant of StartWalk: visited is not reset for the sample
StartWalkKeepVisited ==
    /\ pc = "samples"
    /\ sample_i < Len(stack_indices)
    /\ ~NoStack(At(stack_indices, sample_i))
    /\ current' = At(stack_indices, sample_i)
    /\ depth' = 0
    /\ pc' = "walk"
    /\ UNCHANGED <<symbols, profile, demo_lib, sym_i, addr_to_sym, main_thread,
                   sample_i, visited, func_samples, total_samples, stdout>>

\* lines 88-94: a sample with a stack
StartWalk ==
    /\ pc = "samples"
    /\ sample_i < Len(stack_indices)
    /\ ~NoStack(At(stack_indices, sample_i))
    /\ current' = At(stack_indices, sample_i)
    /\ visited' = {}
    /\ depth' = 0
    /\ pc' = "walk"
    /\ UNCHANGED <<symbols, profile, demo_lib, sym_i, addr_to_sym, main_thread,
                   sample_i, func_samples, total_samples, stdout>>

\* lines 96-112: one iteration of the walk that reaches its end
WalkStep ==
    /\ pc = "walk"
    /\ ~CapReached(depth)
    /\ ~NoStack(current)
    /\ Val(current) \notin visited
    /\ visited' = visited \cup {Val(current)}
    /\ func_samples' =
          Increment(func_samples, FuncName(Thread, addr_to_sym, Val(current)))
    /\ current' = At(Thread.stackTable.prefix, Val(current))
    /\ depth' = depth + 1
    /\ UNCHANGED <<symbols, profile, pc, demo_lib, sym_i, addr_to_sym, main_thread,
                   sample_i, total_samples, stdout>>

\* lines 96-101: range(50) is used up, or one of the two breaks
WalkEnd ==
    /\ pc = "walk"
    /\ IF CapReached(depth) THEN TRUE
       ELSE IF NoStack(current) THEN TRUE
       ELSE Val(current) \in visited
    /\ sample_i' = sample_i + 1
    /\ pc' = "samples"
    /\ UNCHANGED <<symbols, profile, demo_lib, sym_i, addr_to_sym, main_thread,
                   current, visited, depth, func_samples, total_samples, stdout>>

\* variant of TotalSamples: the samples that were walked
TotalWalked(stack) == Cardinality({i \in 1..Len(stack) : ~NoStack(stack[i])})

\* line 114: len(stack_indices)
TotalSamples(stack) == Len(stack)

\* line 114, and main line 227
AnalyzeReturn ==
    /\ pc = "samples"
    /\ sample_i >= Len(stack_indices)
    /\ total_samples' = Some(TotalSamples(stack_indices))
    /\ pc' = "done"
    /\ UNCHANGED <<symbols, profile, demo_lib, sym_i, addr_to_sym, main_thread,
                   sample_i, current, visited, depth, func_samples, stdout>>

-----------------------------------------------------------------------------
(* The documents the run is started on *)

\* all sequences over S of length at most n
SeqsUpTo(S, n) == UNION {[1..k -> S] : k \in 0..n}

\* a symbols document with one image, the target's
OneImage(table, strings) ==
    [data |-> << [debug_name |-> "lib-demo-interactive", symbol_table |-> table] >>,
     string_table |-> strings]

\* a thread record; processName and isMainThread are optional keys
MakeThread(name, stack, frame, prefix, address) ==
    [name |-> name,
     samples |-> [length |-> Len(stack), stack |-> stack],
     stackTable |-> [frame |-> frame, prefix |-> prefix],
     frameTable |-> [address |-> address]]

WithMainFlag(thread, flag) ==
    [k \in DOMAIN thread \cup {"isMainThread"} |->
        IF k = "isMainThread" THEN flag ELSE thread[k]]

WithProcessName(thread, processName) ==
    [k \in DOMAIN thread \cup {"processName"} |->
        IF k = "processName" THEN processName ELSE thread[k]]

OneThread(thread) == [threads |-> <<thread>>]

\* one image "lib-demo-interactive" with the symbol foo at [100, 110)
FooSymbols == OneImage(<< [rva |-> 100, size |-> 10, symbol |-> 0] >>, <<"foo">>)

\* one main thread of 150 samples, each a one-frame stack at address 105
FooProfile ==
    OneThread(WithMainFlag(
        MakeThread("main", [i \in 1..150 |-> Some(0)], <<0>>, <<None>>, <<105>>),
        TRUE))

\* a short thread: a two-frame stack (foo, then the address past foo's end),
\* a sample without a stack, and a one-frame stack
ShortProfile ==
    OneThread(MakeThread("short", <<Some(1), None, Some(0)>>,
                         <<0, 1>>, <<None, Some(0)>>, <<105, 110>>))

\* documents every specification starts from, among others: the run that
\* finds no image, the image without a symbol_table, the empty thread list
CommonInputs ==
    { [symbols |-> FooSymbols, profile |-> FooProfile],
      [symbols |-> FooSymbols, profile |-> ShortProfile],
      [symbols |-> FooSymbols, profile |-> [threads |-> <<>>]],
      [symbols |-> [data |-> << [debug_name |-> "libc.so.6"] >>,
                    string_table |-> <<"foo">>],
       profile |-> ShortProfile],
      [symbols |-> [data |-> << [debug_name |-> "demo-interactive"] >>,
                    string_table |-> <<"foo">>],
       profile |-> ShortProfile] }

(* Stack chains: every prefix table over NumStacks stack ids, every sample *)
(* sequence of at most MaxSamples samples.                                  *)

NumStacks == 2
MaxSamples == 2

StackIds == 0..(NumStacks - 1)

\* a prefix or a sample: None, a negative id, or a stack id
StackRefs == {None, Some(-1)} \cup {Some(s) : s \in StackIds}

\* frame and address tables: one frame per stack id with the frames in one
\* symbol or not, or all stack ids on one frame
FrameTables ==
    { [frame |-> [i \in 1..NumStacks |-> i - 1],
       address |-> [i \in 1..NumStacks |-> 104 + i]],
      [frame |-> [i \in 1..NumStacks |-> i - 1],
       address |-> [i \in 1..NumStacks |-> 100 + (5 * i)]],
      [frame |-> [i \in 1..NumStacks |-> 0],
       address |-> <<105>>] }

\* the sample sequences: all the short ones, and the ones that put any
\* sample between two samples with a stack
SampleSeqs ==
    SeqsUpTo(StackRefs, MaxSamples)
        \cup { <<Some(0), s, Some(NumStacks - 1)>> : s \in StackRefs }

ChainInputs ==
    { [symbols |-> FooSymbols,
       profile |-> OneThread(MakeThread("chains", stack, t.frame, prefix, t.address))] :
         stack \in SampleSeqs,
         prefix \in [1..NumStacks -> StackRefs],
         t \in FrameTables }

(* Cycles beside a chain: stack ids 0 and 1 are a chain with root 0, the   *)
(* ids from 2 on a ring of len ids. The samples put a sample on the ring   *)
(* between two samples on the chain.                                       *)

MaxCycle == 2

CycleProfiles(len) ==
    { OneThread(MakeThread("cycle", <<Some(a), Some(c), Some(b)>>,
                           [i \in 1..(2 + len) |-> i - 1],
                           [i \in 1..(2 + len) |->
                               IF i = 1 THEN None
                               ELSE IF i = 2 THEN Some(0)
                               ELSE IF i = 2 + len THEN Some(2)
                               ELSE Some(i)],
                           [i \in 1..(2 + len) |-> 104 + i])) :
         a \in 0..1, b \in 0..1, c \in 2..(1 + len) }

CycleInputs ==
    { [symbols |-> FooSymbols, profile |-> p] :
         p \in UNION { CycleProfiles(len) : len \in 1..MaxCycle } }

(* Deep chains: a line of n stack ids, n around the cap, from the leaf n-1 *)
(* to the root 0, or closed into a ring by making the leaf the root's      *)
(* prefix. Stack id i has frame i at address 60+i: ids 40..49 are in foo.  *)

DeepExtra == 2

DeepThread(n, ring, stack) ==
    MakeThread("deep", stack,
               [i \in 1..n |-> i - 1],
               [i \in 1..n |-> IF i > 1 THEN Some(i - 2)
                               ELSE IF ring THEN Some(n - 1) ELSE None],
               [i \in 1..n |-> 59 + i])

DeepProfiles(n) ==
    { OneThread(DeepThread(n, ring, stack)) :
         ring \in BOOLEAN,
         stack \in { <<Some(n - 1)>>, <<Some(n - 1), None, Some(n - 2)>> } }

DeepInputs ==
    { [symbols |-> FooSymbols, profile |-> p] :
         p \in UNION { DeepProfiles(n) : n \in (MaxDepth - 1)..(MaxDepth + DeepExtra) } }

(* Symbol tables: every sequence of at most MaxSyms entries with rva up to *)
(* MaxRva and size up to MaxSize, named foo or bar. The thread has one      *)
(* sample whose chain has one frame on every address from 0 to the address  *)
(* past the end of the farthest entry.                                      *)

MaxSyms == 2
MaxRva == 1
MaxSize == 2

SymbolEntries == [rva : 0..MaxRva, size : 0..MaxSize, symbol : 0..1]

ProbeProfile ==
    LET n == MaxRva + MaxSize + 1 IN
    OneThread(MakeThread("probe", <<Some(n - 1)>>,
                         [i \in 1..n |-> i - 1],
                         [i \in 1..n |-> IF i = 1 THEN None ELSE Some(i - 2)],
                         [i \in 1..n |-> i - 1]))

ResolveInputs ==
    { [symbols |-> OneImage(table, <<"foo", "bar">>), profile |-> ProbeProfile] :
         table \in SeqsUpTo(SymbolEntries, MaxSyms) }

(* Threads: every sequence of 1 to MaxThreads threads, each with or without *)
(* a processName (one that contains the target name, or one that differs in *)
(* case), with or without isMainThread, and with MinSamples or one more     *)
(* samples, of which the first has a stack.                                 *)

MaxThreads == 2

ProcessNames == {None, Some("Demo-Interactive"), Some("target/release/demo-interactive")}

IdleThread(length) ==
    MakeThread("worker", [i \in 1..length |-> IF i = 1 THEN Some(0) ELSE None],
               <<0>>, <<None>>, <<105>>)

ThreadKinds ==
    { LET named == IF processName = None THEN IdleThread(length)
                   ELSE WithProcessName(IdleThread(length), Val(processName))
      IN IF flagged THEN WithMainFlag(named, TRUE) ELSE named :
         processName \in ProcessNames,
         flagged \in BOOLEAN,
         length \in MinSamples..(MinSamples + 1) }

SelectInputs ==
    { [symbols |-> FooSymbols, profile |-> [threads |-> threads]] :
         threads \in SeqsUpTo(ThreadKinds, MaxThreads) \ {<<>>} }

(* Images: every sequence of at most MaxImages images, each with or without *)
(* a debug_name (the target's, one that differs in case, another library's) *)
(* and with or without a symbol_table (empty, foo at [100, 110), or bar at  *)
(* [100, 110)).                                                             *)

MaxImages == 2

DebugNames ==
    {None, Some("lib-demo-interactive"), Some("Demo-Interactive"), Some("libc.so.6")}

SymbolTables ==
    {None, Some(<<>>),
     Some(<< [rva |-> 100, size |-> 10, symbol |-> 0] >>),
     Some(<< [rva |-> 100, size |-> 10, symbol |-> 1] >>)}

\* an image record that has the keys whose value is not None
Image(debug_name, table) ==
    [k \in (IF debug_name = None THEN {} ELSE {"debug_name"})
            \cup (IF table = None THEN {} ELSE {"symbol_table"}) |->
        IF k = "debug_name" THEN Val(debug_name) ELSE Val(table)]

ImageKinds == { Image(debug_name, table) : debug_name \in DebugNames, table \in SymbolTables }

ImageInputs ==
    { [symbols |-> [data |-> data, string_table |-> <<"foo", "bar">>],
       profile |-> ShortProfile] :
         data \in SeqsUpTo(ImageKinds, MaxImages) }

\* the state main() is in when it calls build_address_map, on one of inputs
InitOn(inputs) ==
    /\ \E inp \in inputs :
          /\ symbols = inp.symbols
          /\ profile = inp.profile
    /\ pc = "build"
    /\ demo_lib = None
    /\ sym_i = 0
    /\ addr_to_sym = EmptyDict
    /\ main_thread = None
    /\ sample_i = 0
    /\ current = None
    /\ visited = {}
    /\ depth = 0
    /\ func_samples = EmptyDict
    /\ total_samples = None
    /\ stdout = <<"Loading profile data...", "Building address map...">>

Init == InitOn(CommonInputs \cup ChainInputs \cup CycleInputs \cup DeepInputs)

InitResolve == InitOn(CommonInputs \cup ResolveInputs)

InitSelect == InitOn(CommonInputs \cup SelectInputs)

InitBuild == InitOn(CommonInputs \cup ImageInputs)

Next ==
    \/ FindImage
    \/ MapSymbol
    \/ BuildReturn
    \/ FindMainThread
    \/ SkipSample
    \/ StartWalk
    \/ WalkStep
    \/ WalkEnd
    \/ AnalyzeReturn

Spec == Init /\ [][Next]_vars

SpecResolve == InitResolve /\ [][Next]_vars

SpecSelect == InitSelect /\ [][Next]_vars

SpecBuild == InitBuild /\ [][Next]_vars

-----------------------------------------------------------------------------
(* The reference walk of a sample, written from the stack-chain table alone *)

\* frame_of, parent_of and address_of of the selected thread
frame_of(s) == At(Thread.stackTable.frame, s)
parent_of(s) == At(Thread.stackTable.prefix, s)
address_of(f) == At(Thread.frameTable.address, f)

\* the stack ids counted from ref on: ref is absent or negative, or was seen,
\* or no step is left
RECURSIVE RefWalk(_, _, _)
RefWalk(ref, seen, steps) ==
    IF steps = 0 THEN <<>>
    ELSE IF ref = None THEN <<>>
    ELSE IF Val(ref) < 0 \/ Val(ref) \in seen THEN <<>>
    ELSE <<Val(ref)>> \o RefWalk(parent_of(Val(ref)), seen \cup {Val(ref)}, steps - 1)

\* the names one sample adds 1 to, leaf first
SampleNames(ref) ==
    LET walk == RefWalk(ref, {}, MaxDepth) IN
    [k \in 1..Len(walk) |-> Resolve(addr_to_sym, address_of(frame_of(walk[k])))]

\* the counts that the samples among the first n whose place is in keep
\* add up to: one per sample and step of its walk
RefCounts(n, keep) ==
    LET names == [i \in {j \in keep : j <= n} |-> SampleNames(stack_indices[i])]
        steps == UNION { {<<i, k>> : k \in 1..Len(names[i])} : i \in DOMAIN names }
    IN [f \in {names[st[1]][st[2]] : st \in steps} |->
           Cardinality({st \in steps : names[st[1]][st[2]] = f})]

\* the counts of a sequence of names
CountsOf(names) ==
    [f \in {names[k] : k \in 1..Len(names)} |->
        Cardinality({k \in 1..Len(names) : names[k] = f})]

\* the places of all samples
AllSamples == 1..Len(stack_indices)

\* the sum of two count mappings
AddCounts(c, d) ==
    [f \in DOMAIN c \cup DOMAIN d |-> DictGet(c, f, 0) + DictGet(d, f, 0)]

\* the sum of all counts
RECURSIVE SumCounts(_)
SumCounts(c) ==
    IF DOMAIN c = {} THEN 0
    ELSE LET f == CHOOSE f \in DOMAIN c : TRUE IN
         c[f] + SumCounts([g \in DOMAIN c \ {f} |-> c[g]])

\* the k-th parent of ref, None past the root
RECURSIVE AncestorOf(_, _)
AncestorOf(ref, k) ==
    IF NoStack(ref) THEN None
    ELSE IF k = 0 THEN ref
    ELSE AncestorOf(parent_of(Val(ref)), k - 1)

\* the k-th parent of stack id s, None past the root
Ancestor(s, k) == AncestorOf(Some(s), k)

NumIds == Len(Thread.stackTable.prefix)

\* the chain from s never reaches a root
EntersCycle(s) == ~NoStack(Ancestor(s, NumIds))

\* the chain from s is acyclic and has more than MaxDepth stack ids
LongChain(s) == ~EntersCycle(s) /\ ~NoStack(Ancestor(s, MaxDepth))

\* the places of the samples whose chain enters a cycle
CyclicSamples ==
    {i \in AllSamples : IF NoStack(stack_indices[i]) THEN FALSE
                        ELSE EntersCycle(Val(stack_indices[i]))}

Sampling == pc \in {"samples", "walk", "done"}

-----------------------------------------------------------------------------
(* Claims on analyze_samples *)

\* C1: whenever analyze_samples is between two samples, and when it has
\* returned, func_samples is the count of the reference walks of the samples
\* handled so far: a sample without a stack id (None or negative) adds
\* nothing, every other sample adds 1 per step to the name its current stack
\* id resolves to, from its stack id up the parents, until the parent is
\* absent, the id was visited in this walk, or 50 steps were made.
C1_CountsEqualReferenceWalk ==
    pc \in {"samples", "done"} =>
        func_samples = RefCounts(sample_i, AllSamples)

\* C1 witness: a finished run of two samples, one without a stack and one
\* whose chain has foo at two depths, so that foo gained 2 from one sample.
C1_Witness ==
    /\ pc = "done"
    /\ Len(stack_indices) = 2
    /\ \E i \in 1..2 : NoStack(stack_indices[i])
    /\ "foo" \in DOMAIN func_samples
    /\ func_samples["foo"] = 2

\* C2: the total_samples returned is the number of entries of the selected
\* thread's sample sequence, whatever happened to the samples.
C2_TotalIsSampleCount ==
    pc = "done" => total_samples = Some(Len(profile.threads[Val(main_thread)].samples.stack))

\* C2 witness: a finished run of three samples of which one was skipped and
\* one entered a cycle, with a total of 3.
C2_Witness ==
    /\ pc = "done"
    /\ total_samples = Some(3)
    /\ \E i \in 1..3 : NoStack(stack_indices[i])
    /\ \E i \in 1..3 : ~NoStack(stack_indices[i]) /\ EntersCycle(Val(stack_indices[i]))

\* C3: a walk counts every stack id at most once (the ids counted are the
\* set visited, as many as steps were made), it can always go on or end, and
\* the counts are the sum of the counts of the samples that enter a cycle and
\* of the counts of the others, each as if the other samples were not there.
C3_CycleStopsOthersUnaffected ==
    /\ pc = "walk" =>
          /\ Cardinality(visited) = depth
          /\ depth <= NumIds
          /\ ENABLED (WalkStep \/ WalkEnd)
    /\ pc \in {"samples", "done"} =>
          func_samples = AddCounts(RefCounts(sample_i, CyclicSamples),
                                   RefCounts(sample_i, AllSamples \ CyclicSamples))

\* C3 witness: a finished run of three samples, the middle one entering a
\* cycle, the first and the last with a stack and a root.
C3_Witness ==
    /\ pc = "done"
    /\ Len(stack_indices) = 3
    /\ \A i \in 1..3 : ~NoStack(stack_indices[i])
    /\ EntersCycle(Val(stack_indices[2]))
    /\ ~EntersCycle(Val(stack_indices[1]))
    /\ ~EntersCycle(Val(stack_indices[3]))
    /\ SumCounts(func_samples) > 2

\* the walk of the current sample is over
WalkOver ==
    /\ pc = "walk"
    /\ IF CapReached(depth) THEN TRUE
       ELSE IF NoStack(current) THEN TRUE
       ELSE Val(current) \in visited

\* C4: no sample adds more than 50 increments, and when the walk of a sample
\* whose acyclic chain has more than 50 stack ids is over, the ids counted
\* are the leaf and its 49 nearest ancestors.
C4_DepthCap ==
    /\ Sampling => SumCounts(func_samples) <=
                      MaxDepth * (sample_i + (IF pc = "walk" THEN 1 ELSE 0))
    /\ pc = "walk" => depth <= MaxDepth /\ Cardinality(visited) <= MaxDepth
    /\ (WalkOver /\ LongChain(Val(stack_indices[sample_i + 1]))) =>
          /\ depth = MaxDepth
          /\ visited = { Val(Ancestor(Val(stack_indices[sample_i + 1]), k)) :
                            k \in 0..(MaxDepth - 1) }
          /\ func_samples =
                AddCounts(RefCounts(sample_i, AllSamples),
                          CountsOf([k \in 1..MaxDepth |->
                              Resolve(addr_to_sym, address_of(frame_of(
                                  Val(Ancestor(Val(stack_indices[sample_i + 1]), k - 1)))))]))

\* C4 witness: the walk of a sample with an acyclic chain of more than 50
\* stack ids is over, and its 51st stack id was not visited.
C4_Witness ==
    /\ WalkOver
    /\ LongChain(Val(stack_indices[sample_i + 1]))
    /\ current # None
    /\ Val(current) \notin visited

-----------------------------------------------------------------------------
(* Claims on the address map and resolve *)

\* build_address_map has returned
Built == pc \in {"select", "ValueError", "samples", "walk", "done"}

\* the symbol entries of the image used, in input order
Entries == symbols.data[Val(demo_lib)].symbol_table

\* entry e covers address a: a is in [start, start + length)
Covers(e, a) == e.rva <= a /\ a < e.rva + e.size

NameOf(e) == At(symbols.string_table, e.symbol)

\* the places of the entries that cover a
Covering(a) == {i \in 1..Len(Entries) : Covers(Entries[i], a)}

\* the addresses resolve is asked
QueryAddrs == (0..(MaxRva + MaxSize)) \cup {99, 100, 109, 110, 255, 4095}

\* resolve(a) on the map built
resolve(a) == Resolve(addr_to_sym, a)

\* the number a string of hexadecimal digits stands for
RECURSIVE HexValue(_)
HexValue(str) ==
    IF Len(str) = 0 THEN 0
    ELSE LET last == SubSeq(str, Len(str), Len(str))
             digit == CHOOSE d \in 0..15 : HexDigits[d + 1] = last
         IN (HexValue(SubSeq(str, 1, Len(str) - 1)) * 16) + digit

\* C5: an address covered by exactly one entry resolves to that entry's
\* name, so the start of an entry covered by no other does; the address
\* start + length of an entry, when no entry covers it, does not resolve to
\* the entry's name; the addresses in the map are those some entry covers,
\* so an entry of length 0 adds none.
C5_ExactlyOneEntryCovers ==
    Built =>
        /\ \A a \in QueryAddrs :
              LET covering == Covering(a) IN
              /\ \A i \in covering : covering = {i} => resolve(a) = NameOf(Entries[i])
              /\ a \in DOMAIN addr_to_sym <=> covering # {}
        /\ \A i \in 1..Len(Entries) :
              Covering(Entries[i].rva + Entries[i].size) = {} =>
                  resolve(Entries[i].rva + Entries[i].size) # NameOf(Entries[i])

\* C5 witness: the map is built from an entry of length 0 and an entry of
\* length 2 that no entry overlaps and whose end no entry covers.
C5_Witness ==
    /\ Built
    /\ \E i \in 1..Len(Entries) : Entries[i].size = 0
    /\ \E i \in 1..Len(Entries) :
          /\ Entries[i].size = 2
          /\ Covering(Entries[i].rva) = {i}
          /\ Covering(Entries[i].rva + 1) = {i}
          /\ Covering(Entries[i].rva + 2) = {}
          /\ resolve(Entries[i].rva) = NameOf(Entries[i])

\* C6: an address covered by two or more entries resolves to the name of
\* the last of them in input order, in every state from the return of
\* build_address_map on.
C6_LastWriterWins ==
    Built =>
        \A a \in QueryAddrs :
            LET covering == Covering(a) IN
            Cardinality(covering) >= 2 =>
                \E i \in covering :
                    /\ \A j \in covering : j <= i
                    /\ resolve(a) = NameOf(Entries[i])

\* C6 witness: samples are being counted on a map in which an address is
\* covered by a foo entry and then by a bar entry, and resolves to bar.
C6_Witness ==
    /\ pc = "walk"
    /\ \E a \in QueryAddrs :
          /\ Covering(a) = {1, 2}
          /\ NameOf(Entries[1]) = "foo"
          /\ NameOf(Entries[2]) = "bar"
          /\ resolve(a) = "bar"

\* the addresses one sample's walk is on, leaf first
SampleAddrs(ref) ==
    LET walk == RefWalk(ref, {}, MaxDepth) IN
    [k \in 1..Len(walk) |-> address_of(frame_of(walk[k]))]

\* the number of steps of all samples' walks that are on address a
StepsOn(a) ==
    LET addrs == [i \in AllSamples |-> SampleAddrs(stack_indices[i])] IN
    Cardinality(UNION { {<<i, k>> : k \in {k \in 1..Len(addrs[i]) : addrs[i][k] = a}} :
                           i \in AllSamples })

\* C7: an address no entry covers resolves to "0x" followed by hexadecimal
\* digits that stand for the address, never to the empty string, and when
\* analyze_samples has returned the label's count is the number of steps the
\* samples' walks made on that address.
C7_FallbackLabel ==
    Built =>
        \A a \in QueryAddrs : Covering(a) = {} =>
            LET label == resolve(a) IN
            /\ Len(label) > 2
            /\ SubSeq(label, 1, 2) = "0x"
            /\ HexValue(SubSeq(label, 3, Len(label))) = a
            /\ SubSeq(label, 3, 3) = "0" => a = 0
            /\ pc = "done" =>
                  IF StepsOn(a) = 0 THEN label \notin DOMAIN func_samples
                  ELSE /\ label \in DOMAIN func_samples
                       /\ func_samples[label] = StepsOn(a)

\* C7 witness: analyze_samples has returned and counted one step on address
\* 110, which no entry covers, under the label 0x6e.
C7_Witness ==
    /\ pc = "done"
    /\ Covering(110) = {}
    /\ StepsOn(110) = 1
    /\ "0x6e" \in DOMAIN func_samples
    /\ func_samples["0x6e"] = 1

-----------------------------------------------------------------------------
(* Claims on find_main_thread *)

\* a thread the first rule accepts: the name or the flag, and more than
\* 100 samples
Preferred(thread) ==
    /\ \/ /\ "processName" \in DOMAIN thread
          /\ Contains(thread.processName, "demo-interactive")
       \/ /\ "isMainThread" \in DOMAIN thread
          /\ thread.isMainThread
    /\ thread.samples.length > 100

\* C8: the thread selected from a non-empty list is the first that has the
\* target name in its process name or is flagged main, and has more than 100
\* samples; when there is none, it is a thread with the most samples. So a
\* thread selected with 100 samples or fewer was selected by its count.
C8_SelectThread ==
    main_thread # None =>
        LET threads == profile.threads
            t == Val(main_thread)
        IN /\ t \in 1..Len(threads)
           /\ IF \E i \in 1..Len(threads) : Preferred(threads[i])
              THEN /\ Preferred(threads[t])
                   /\ \A j \in 1..(t - 1) : ~Preferred(threads[j])
              ELSE \A j \in 1..Len(threads) :
                      threads[j].samples.length <= threads[t].samples.length
           /\ threads[t].samples.length <= 100 =>
                 /\ \A j \in 1..Len(threads) : ~Preferred(threads[j])
                 /\ \A j \in 1..Len(threads) :
                       threads[j].samples.length <= threads[t].samples.length

\* C8 witness: the second of two threads is selected by the first rule, the
\* first being flagged main with exactly 100 samples.
C8_Witness ==
    /\ main_thread = Some(2)
    /\ Len(profile.threads) = 2
    /\ "isMainThread" \in DOMAIN profile.threads[1]
    /\ profile.threads[1].samples.length = 100
    /\ Preferred(profile.threads[2])

-----------------------------------------------------------------------------
(* Claims on the choice of the image *)

\* image i's debug_name contains the target name
Matches(i) ==
    /\ "debug_name" \in DOMAIN symbols.data[i]
    /\ Contains(symbols.data[i].debug_name, "demo-interactive")

NoMatch == \A i \in 1..Len(symbols.data) : ~Matches(i)

\* C9: when no image matches, the run goes from the call of
\* build_address_map to its exit with the message that names the missing
\* library and nowhere else: no map, no thread, no counts, no further step.
\* When an image matches, the first that does is the one used, and the map
\* returned holds the addresses of that image's entries and no others.
C9_FirstMatchingImageOrFatal ==
    /\ NoMatch =>
          /\ pc \in {"build", "exit1"}
          /\ pc = "exit1" =>
                /\ stdout[Len(stdout)] =
                      "ERROR: Could not find demo-interactive library in symbols"
                /\ demo_lib = None
                /\ addr_to_sym = EmptyDict
                /\ main_thread = None
                /\ func_samples = EmptyDict
                /\ total_samples = None
                /\ ~ENABLED Next
    /\ (~NoMatch /\ pc # "build") =>
          /\ pc # "exit1"
          /\ demo_lib # None
          /\ Matches(Val(demo_lib))
          /\ \A j \in 1..(Val(demo_lib) - 1) : ~Matches(j)
          /\ Built => \A a \in QueryAddrs :
                         /\ a \in DOMAIN addr_to_sym <=> Covering(a) # {}
                         /\ a \in DOMAIN addr_to_sym =>
                               \E i \in Covering(a) : addr_to_sym[a] = NameOf(Entries[i])

\* C9 witness: the run has exited on two images, the second of which has
\* the target name in another case.
C9_Witness ==
    /\ pc = "exit1"
    /\ Len(symbols.data) = 2
    /\ "debug_name" \in DOMAIN symbols.data[2]
    /\ symbols.data[2].debug_name = "Demo-Interactive"

\* C10: when the image used has no symbol_table or an empty one, the run
\* does not reach thread selection or the counting of samples.
C10_EmptySymbolTableRejected ==
    (Built \/ pc = "symtab") =>
        /\ "symbol_table" \in DOMAIN symbols.data[Val(demo_lib)]
        /\ Built => Len(symbols.data[Val(demo_lib)].symbol_table) > 0

====
